---- MODULE Spec2Model ----
(***************************************************************************)
(* Model of src/main.py: the perception / decide / act loop of             *)
(* find_best_seattle_hotel, the tenacity-wrapped get_claude_guidance,      *)
(* take_screenshot and the __main__ block.                                 *)
(*                                                                         *)
(* Python strings are sequences of one-character strings, and              *)
(* str.startswith, str.replace, str.strip, the `in` test and float() are   *)
(* computed on them character by character.                                *)
(***************************************************************************)
EXTENDS Integers, Sequences, FiniteSets, TLC

(***************************************************************************)
(* Bounds of the model.                                                    *)
(***************************************************************************)
\* number of tokens in the remainder of a generated CLICK:/TYPE: reply
MaxRem == 3
\* number of tokens in the remainder of a generated WAIT: reply
MaxWaitRem == 2
\* number of loop iterations explored (the loop itself is unbounded)
MaxIter == 2

(***************************************************************************)
(* Program constants.                                                      *)
(***************************************************************************)
\* stop_after_attempt(3)
MaxAttempts == 3
\* wait_exponential(multiplier=1, min=4, max=10)
WaitMultiplier == 1
WaitMin == 4
WaitMax == 10
\* time.sleep(5) after navigation
SettleDelay == 5
\* time.sleep(5) in the loop's except handler
RecoveryDelay == 5
\* time.sleep(1) at the bottom of the loop
IterationDelay == 1
\* WebDriverWait(driver, 10)
ClickTimeout == 10
\* sys.exit(1)
FailureExitCode == 1
\* status of a process ended by an uncaught KeyboardInterrupt
InterruptExitCode == 130

(***************************************************************************)
(* The literals of the dispatch.                                           *)
(***************************************************************************)
CLICK == <<"C", "L", "I", "C", "K", ":">>
TYPE == <<"T", "Y", "P", "E", ":">>
WAIT == <<"W", "A", "I", "T", ":">>
DONE == <<"D", "O", "N", "E">>

(***************************************************************************)
(* Python string operations.                                               *)
(***************************************************************************)
\* characters str.strip() removes
Whitespace == {" ", "\n", "\t", "\r"}

\* s.startswith(p)
StartsWith(s, p) ==
    /\ Len(s) >= Len(p)
    /\ SubSeq(s, 1, Len(p)) = p

\* s.replace(old, ''): every non-overlapping occurrence, left to right
RECURSIVE Replace(_, _)
Replace(s, old) ==
    IF s = <<>> THEN <<>>
    ELSE IF StartsWith(s, old)
         THEN Replace(SubSeq(s, Len(old) + 1, Len(s)), old)
         ELSE <<Head(s)>> \o Replace(Tail(s), old)

RECURSIVE LStrip(_)
LStrip(s) ==
    IF s # <<>> /\ Head(s) \in Whitespace THEN LStrip(Tail(s)) ELSE s

RECURSIVE RStrip(_)
RStrip(s) ==
    IF s # <<>> /\ s[Len(s)] \in Whitespace
    THEN RStrip(SubSeq(s, 1, Len(s) - 1))
    ELSE s

\* s.strip()
Strip(s) == RStrip(LStrip(s))

\* sub in s
Contains(s, sub) ==
    \E i \in 1..(Len(s) - Len(sub) + 1) : SubSeq(s, i, i + Len(sub) - 1) = sub

(***************************************************************************)
(* float(s) on an already stripped string, for strings over digits, sign,  *)
(* point and lower-case letters: [sign] digits [. digits] | [sign] .       *)
(* digits | [sign] inf | [sign] nan.  A finite value is mant / 10^scale    *)
(* with trailing zeros of the fraction removed.                            *)
(***************************************************************************)
Digits == {"0", "1", "2", "3", "4", "5", "6", "7", "8", "9"}

DigitVal(c) ==
    CASE c = "0" -> 0 [] c = "1" -> 1 [] c = "2" -> 2 [] c = "3" -> 3
      [] c = "4" -> 4 [] c = "5" -> 5 [] c = "6" -> 6 [] c = "7" -> 7
      [] c = "8" -> 8 [] c = "9" -> 9

RECURSIVE DigitsVal(_)
DigitsVal(s) ==
    IF s = <<>> THEN 0
    ELSE DigitsVal(SubSeq(s, 1, Len(s) - 1)) * 10 + DigitVal(s[Len(s)])

AllDigits(s) == \A i \in 1..Len(s) : s[i] \in Digits

RECURSIVE Normalise(_, _)
Normalise(mant, scale) ==
    IF scale > 0 /\ mant % 10 = 0
    THEN Normalise(mant \div 10, scale - 1)
    ELSE [mant |-> mant, scale |-> scale]

ParseError == [kind |-> "error", neg |-> FALSE, mant |-> 0, scale |-> 0]

ParseUnsigned(s, neg) ==
    IF s = <<"i", "n", "f">> \/ s = <<"i", "n", "f", "i", "n", "i", "t", "y">>
    THEN [kind |-> "inf", neg |-> neg, mant |-> 0, scale |-> 0]
    ELSE IF s = <<"n", "a", "n">>
    THEN [kind |-> "nan", neg |-> neg, mant |-> 0, scale |-> 0]
    ELSE IF \E i \in 1..Len(s) : s[i] = "."
    THEN LET p == CHOOSE i \in 1..Len(s) : s[i] = "."
             ip == SubSeq(s, 1, p - 1)
             fp == SubSeq(s, p + 1, Len(s))
         IN IF AllDigits(ip) /\ AllDigits(fp) /\ Len(ip) + Len(fp) > 0
            THEN LET n == Normalise(DigitsVal(ip \o fp), Len(fp))
                 IN [kind |-> "finite", neg |-> neg,
                     mant |-> n.mant, scale |-> n.scale]
            ELSE ParseError
    ELSE IF s # <<>> /\ AllDigits(s)
    THEN [kind |-> "finite", neg |-> neg, mant |-> DigitsVal(s), scale |-> 0]
    ELSE ParseError

\* float(s)
ParseFloat(s) ==
    IF s # <<>> /\ Head(s) = "-" THEN ParseUnsigned(Tail(s), TRUE)
    ELSE IF s # <<>> /\ Head(s) = "+" THEN ParseUnsigned(Tail(s), FALSE)
    ELSE ParseUnsigned(s, FALSE)


SleepAcceptsInf(v) ==
    \/ v.kind = "nan"
    \/ v.kind = "finite" /\ v.neg /\ v.mant > 0

\* time.sleep(v) raises ValueError for a negative or NaN value and
\* OverflowError for an infinite one
SleepRaises(v) ==
    \/ v.kind = "nan"
    \/ v.kind = "inf"
    \/ v.kind = "finite" /\ v.neg /\ v.mant > 0

(***************************************************************************)
(* The oracle replies explored: message.content[0].text is any text.       *)
(***************************************************************************)
RECURSIVE Flatten(_)
Flatten(ts) == IF ts = <<>> THEN <<>> ELSE Head(ts) \o Flatten(Tail(ts))

TokenSeqs(T, n) == UNION {[1..k -> T] : k \in 0..n}

TextTokens == {<<" ">>, <<"a">>, <<"/">>, CLICK, TYPE}

WaitTokens == {<<" ">>, <<"2">>, <<"5">>, <<".">>, <<"-">>, <<"x">>,
               <<"i", "n", "f">>, <<"n", "a", "n">>, WAIT}

TextRemainders == {Flatten(ts) : ts \in TokenSeqs(TextTokens, MaxRem)}

WaitRemainders == {Flatten(ts) : ts \in TokenSeqs(WaitTokens, MaxWaitRem)}

OtherReplies ==
    {pre \o core \o post :
        pre \in {<<>>, <<" ">>},
        core \in {DONE, <<"d", "o", "n", "e">>, CLICK, TYPE, WAIT, <<>>},
        post \in {<<>>, <<" ">>, <<"\n">>, <<"a">>}}

Replies ==
    {CLICK \o r : r \in TextRemainders}
        \cup {TYPE \o r : r \in TextRemainders}
        \cup {WAIT \o r : r \in WaitRemainders}
        \cup OtherReplies

(***************************************************************************)
(* State.                                                                  *)
(***************************************************************************)
VARIABLES
    pc,             \* the statement about to run
    driver,         \* local `driver` of find_best_seattle_hotel
    keyPresent,     \* os.getenv('ANTHROPIC_API_KEY') is non-empty
    screenshot,     \* local `screenshot`: number of the snapshot it holds
    guidance,       \* local `guidance`
    attempts,       \* attempts of the running get_claude_guidance call
    pending,        \* exception propagating out of the try body
    exitCode,       \* status of the process, -1 while it runs
    iter,           \* iterations started
    sessionsCreated,\* webdriver.Chrome(...) calls that returned
    quitCalls,      \* driver.quit() calls
    performed,      \* browser interactions of the current iteration
    slept,          \* time.sleep calls since the current iteration started
    iterError,      \* what sent the current iteration to the except handler
    raisedAt,       \* statement at which `pending` was raised
    captureFault,   \* statement of take_screenshot that raised, this iteration
    okQueries,      \* get_claude_guidance calls that returned
    failedIters,    \* iterations that ended in the loop's except handler
    actionsExecuted \* clicks, types, waits and breaks the dispatch has run

vars == <<pc, driver, keyPresent, screenshot, guidance, attempts, pending,
          exitCode, iter, sessionsCreated, quitCalls, performed, slept,
          iterError, raisedAt, captureFault, okQueries, failedIters,
          actionsExecuted>>

\* statements inside `while True`
LoopPcs == {"capture", "query", "backoff", "dispatch", "recover", "pause"}

\* statements inside the outer try
TryPcs == {"setup", "navigate", "settle"} \cup LoopPcs

\* failures get_claude_guidance can raise with a credential present:
\* httpx.TimeoutException, httpx.RequestError, any other Exception
RequestFailures == {"timeout", "network", "api"}

Sleep(who, secs) == [who |-> who, mant |-> secs, scale |-> 0]

Init ==
    /\ pc = "setup"
    /\ driver = "None"
    /\ keyPresent \in BOOLEAN
    /\ screenshot = 0
    /\ guidance = <<>>
    /\ attempts = <<>>
    /\ pending = "none"
    /\ exitCode = -1
    /\ iter = 0
    /\ sessionsCreated = 0
    /\ quitCalls = 0
    /\ performed = <<>>
    /\ slept = <<>>
    /\ iterError = "none"
    /\ raisedAt = "none"
    /\ captureFault = "none"
    /\ okQueries = 0
    /\ failedIters = 0
    /\ actionsExecuted = 0

(***************************************************************************)
(* find_best_seattle_hotel, before the loop.                               *)
(***************************************************************************)
\* driver = setup_driver(): returns a session or re-raises
SetupDriver ==
    /\ pc = "setup"
    /\ \/ /\ driver' = "session"
          /\ sessionsCreated' = sessionsCreated + 1
          /\ pc' = "navigate"
          /\ UNCHANGED <<pending, raisedAt>>
       \/ /\ pending' = "Exception"
          /\ raisedAt' = "setup"
          /\ pc' = "finally"
          /\ UNCHANGED <<driver, sessionsCreated>>
    /\ UNCHANGED <<keyPresent, screenshot, guidance, attempts, exitCode, iter,
                   quitCalls, performed, slept, iterError,
                   captureFault, okQueries, failedIters,
                   actionsExecuted>>

\* driver.get("https://www.expedia.com")
Navigate ==
    /\ pc = "navigate"
    /\ \/ /\ pc' = "settle"
          /\ UNCHANGED <<pending, raisedAt>>
       \/ /\ pending' = "Exception"
          /\ raisedAt' = "navigate"
          /\ pc' = "finally"
    /\ UNCHANGED <<driver, keyPresent, screenshot, guidance, attempts,
                   exitCode, iter, sessionsCreated, quitCalls, performed,
                   slept, iterError,
                   captureFault, okQueries, failedIters,
                   actionsExecuted>>

\* time.sleep(5)
Settle ==
    /\ pc = "settle"
    /\ slept' = Append(slept, Sleep("settle", SettleDelay))
    /\ pc' = "capture"
    /\ UNCHANGED <<driver, keyPresent, screenshot, guidance, attempts,
                   pending, exitCode, iter, sessionsCreated, quitCalls,
                   performed, iterError, raisedAt,
                   captureFault, okQueries, failedIters,
                   actionsExecuted>>

(***************************************************************************)
(* take_screenshot(driver), called at the top of each iteration.           *)
(***************************************************************************)
\* what the call does: "ok", "grab" (get_screenshot_as_png or Image.open
\* raises) or "save" (image.save(local_path) raises)
CaptureOutcomes == {"ok", "grab", "save"}

\* The previous iteration's `guidance` is dead here: no statement reads it
\* before line 180 assigns it again, so the model drops its value.
TakeScreenshot ==
    /\ pc = "capture"
    /\ iter < MaxIter
    /\ iter' = iter + 1
    /\ guidance' = <<>>
    /\ performed' = <<>>
    /\ slept' = <<>>
    /\ attempts' = <<>>
    /\ \E o \in CaptureOutcomes :
          IF o = "ok"
          THEN /\ screenshot' = iter + 1
               /\ captureFault' = "none"
               /\ iterError' = "none"
               /\ pc' = "query"
               /\ UNCHANGED failedIters
          ELSE /\ captureFault' = o
               /\ iterError' = "capture"
               /\ failedIters' = failedIters + 1
               /\ pc' = "recover"
               /\ UNCHANGED screenshot
    /\ UNCHANGED <<driver, keyPresent, pending, exitCode,
                   sessionsCreated, quitCalls, raisedAt, okQueries,
                   actionsExecuted>>

(***************************************************************************)
(* get_claude_guidance(screenshot) under @retry.                           *)
(***************************************************************************)
RECURSIVE Pow2(_)
Pow2(n) == IF n = 0 THEN 1 ELSE 2 * Pow2(n - 1)

Max(a, b) == IF a >= b THEN a ELSE b

Min(a, b) == IF a <= b THEN a ELSE b


WaitExponentialNoMin(n) == Min(WaitMultiplier * Pow2(n - 1), WaitMax)

\* wait_exponential(multiplier=1, min=4, max=10) after attempt number n
WaitExponential(n) ==
    Max(Max(0, WaitMin), Min(WaitMultiplier * Pow2(n - 1), WaitMax))

\* the retry predicate: @retry without retry= retries on every Exception
ShouldRetry(failure) == failure \in RequestFailures \cup {"credential"}

\* stop_after_attempt(3)
StopAfterFour(n) == n >= MaxAttempts + 1

StopAfterAttempt(n) == n >= MaxAttempts

\* one attempt has failed with `failure`
AttemptFailed(failure) ==
    /\ attempts' = Append(attempts,
          [result |-> failure, image |-> screenshot, reply |-> <<>>])
    /\ IF ShouldRetry(failure) /\ ~StopAfterAttempt(Len(attempts) + 1)
       THEN /\ pc' = "backoff"
            /\ UNCHANGED <<iterError, failedIters>>
       ELSE /\ pc' = "recover"
            /\ iterError' = "oracle"
            /\ failedIters' = failedIters + 1
    /\ UNCHANGED <<guidance, okQueries>>

\* one attempt: the body of get_claude_guidance
QueryAttempt ==
    /\ pc = "query"
    /\ IF ~keyPresent
       THEN AttemptFailed("credential")
       ELSE \/ \E f \in RequestFailures : AttemptFailed(f)
            \/ \E r \in Replies :
                  /\ attempts' = Append(attempts,
                        [result |-> "ok", image |-> screenshot, reply |-> r])
                  /\ guidance' = r
                  /\ okQueries' = okQueries + 1
                  /\ pc' = "dispatch"
                  /\ UNCHANGED <<iterError, failedIters>>
    /\ UNCHANGED <<driver, keyPresent, screenshot, pending, exitCode, iter,
                   sessionsCreated, quitCalls, performed, slept, raisedAt,
                   captureFault,
                   actionsExecuted>>



BackoffRecaptures ==
    /\ pc = "backoff"
    /\ slept' = Append(slept, Sleep("backoff", WaitExponential(Len(attempts))))
    /\ screenshot' = screenshot + 1
    /\ pc' = "query"
    /\ UNCHANGED <<driver, keyPresent, guidance, attempts,
                   pending, exitCode, iter, sessionsCreated, quitCalls,
                   performed, iterError, raisedAt, captureFault,
                   okQueries, failedIters, actionsExecuted>>

BackoffSkipped ==
    /\ pc = "backoff"
    /\ pc' = "query"
    /\ UNCHANGED <<driver, keyPresent, screenshot, guidance, attempts,
                   pending, exitCode, iter, sessionsCreated, quitCalls,
                   performed, slept, iterError, raisedAt, captureFault,
                   okQueries, failedIters, actionsExecuted>>

\* the sleep tenacity takes between two attempts
Backoff ==
    /\ pc = "backoff"
    /\ slept' = Append(slept, Sleep("backoff", WaitExponential(Len(attempts))))
    /\ pc' = "query"
    /\ UNCHANGED <<driver, keyPresent, screenshot, guidance, attempts,
                   pending, exitCode, iter, sessionsCreated, quitCalls,
                   performed, iterError, raisedAt,
                   captureFault, okQueries, failedIters,
                   actionsExecuted>>

(***************************************************************************)
(* The if / elif chain on `guidance`.                                      *)
(***************************************************************************)
\* guidance == 'DONE'
IsDonePrefix(g) == StartsWith(g, DONE)

IsDone(g) == g = DONE

\* the branch taken, in the order of the chain
Branch(g) ==
    IF StartsWith(g, CLICK) THEN "click"
    ELSE IF StartsWith(g, TYPE) THEN "type"
    ELSE IF StartsWith(g, WAIT) THEN "wait"
    ELSE IF IsDone(g) THEN "done"
    ELSE "none"

\* selector = guidance.replace('CLICK:', '').strip()
ClickSelector(g) == Strip(Replace(g, CLICK))

\* text = guidance.replace('TYPE:', '').strip()
TypeText(g) == Strip(Replace(g, TYPE))

\* By.XPATH if '//' in selector else By.CSS_SELECTOR
ClickBy(selector) ==
    IF Contains(selector, <<"/", "/">>) THEN "xpath" ELSE "css selector"

\* float(guidance.replace('WAIT:', '').strip())
WaitSeconds(g) == ParseFloat(Strip(Replace(g, WAIT)))


ClickUncaught ==
    /\ pc = "dispatch"
    /\ Branch(guidance) = "click"
    /\ LET selector == ClickSelector(guidance)
       IN \E ok \in BOOLEAN :
             /\ performed' = Append(performed,
                   [op |-> "click", by |-> ClickBy(selector),
                    arg |-> selector, ok |-> ok])
             /\ IF ok
                THEN /\ pc' = "pause"
                     /\ UNCHANGED <<iterError, failedIters>>
                ELSE /\ pc' = "recover"
                     /\ iterError' = "action"
                     /\ failedIters' = failedIters + 1
    /\ actionsExecuted' = actionsExecuted + 1
    /\ UNCHANGED <<driver, keyPresent, screenshot, guidance, attempts,
                   pending, exitCode, iter, sessionsCreated, quitCalls,
                   slept, raisedAt, captureFault, okQueries>>

\* the CLICK: branch; the inner try swallows every failure of the lookup,
\* the wait for clickability and the click
Click ==
    /\ pc = "dispatch"
    /\ Branch(guidance) = "click"
    /\ LET selector == ClickSelector(guidance)
       IN \E ok \in BOOLEAN :
             performed' = Append(performed,
                 [op |-> "click", by |-> ClickBy(selector),
                  arg |-> selector, ok |-> ok])
    /\ pc' = "pause"
    /\ actionsExecuted' = actionsExecuted + 1
    /\ UNCHANGED <<driver, keyPresent, screenshot, guidance, attempts,
                   pending, exitCode, iter, sessionsCreated, quitCalls,
                   slept, iterError, raisedAt,
                   captureFault, okQueries, failedIters>>

\* the TYPE: branch; the inner try swallows every failure of
\* switch_to.active_element and send_keys
Type ==
    /\ pc = "dispatch"
    /\ Branch(guidance) = "type"
    /\ LET text == TypeText(guidance)
       IN \E ok \in BOOLEAN :
             performed' = Append(performed,
                 [op |-> "type", by |-> "active_element",
                  arg |-> text, ok |-> ok])
    /\ pc' = "pause"
    /\ actionsExecuted' = actionsExecuted + 1
    /\ UNCHANGED <<driver, keyPresent, screenshot, guidance, attempts,
                   pending, exitCode, iter, sessionsCreated, quitCalls,
                   slept, iterError, raisedAt,
                   captureFault, okQueries, failedIters>>


WaitFatal ==
    /\ pc = "dispatch"
    /\ Branch(guidance) = "wait"
    /\ LET seconds == WaitSeconds(guidance)
       IN IF seconds.kind = "error" \/ SleepRaises(seconds)
          THEN /\ pending' = "Exception"
               /\ raisedAt' = "dispatch"
               /\ pc' = "finally"
               /\ UNCHANGED <<slept, actionsExecuted>>
          ELSE /\ slept' = Append(slept,
                     [who |-> "wait", mant |-> seconds.mant,
                      scale |-> seconds.scale])
               /\ actionsExecuted' = actionsExecuted + 1
               /\ pc' = "pause"
               /\ UNCHANGED <<pending, raisedAt>>
    /\ UNCHANGED <<driver, keyPresent, screenshot, guidance, attempts,
                   exitCode, iter, sessionsCreated, quitCalls, performed,
                   iterError, failedIters, captureFault, okQueries>>

\* the WAIT: branch; float() and time.sleep() raise into the loop's handler
Wait ==
    /\ pc = "dispatch"
    /\ Branch(guidance) = "wait"
    /\ LET seconds == WaitSeconds(guidance)
       IN IF seconds.kind = "error"
          THEN /\ iterError' = "wait_parse"
               /\ failedIters' = failedIters + 1
               /\ pc' = "recover"
               /\ UNCHANGED <<slept, actionsExecuted>>
          ELSE IF SleepRaises(seconds)
          THEN /\ iterError' = "wait_sleep"
               /\ failedIters' = failedIters + 1
               /\ pc' = "recover"
               /\ UNCHANGED <<slept, actionsExecuted>>
          ELSE /\ slept' = Append(slept,
                     [who |-> "wait", mant |-> seconds.mant,
                      scale |-> seconds.scale])
               /\ actionsExecuted' = actionsExecuted + 1
               /\ pc' = "pause"
               /\ UNCHANGED <<iterError, failedIters>>
    /\ UNCHANGED <<driver, keyPresent, screenshot, guidance, attempts,
                   pending, exitCode, iter, sessionsCreated, quitCalls,
                   performed, raisedAt, captureFault, okQueries>>

\* the DONE branch: break, which leaves through the finally clause
DoneNoBreak ==
    /\ pc = "dispatch"
    /\ Branch(guidance) = "done"
    /\ pc' = "pause"
    /\ UNCHANGED <<driver, keyPresent, screenshot, guidance, attempts,
                   pending, exitCode, iter, sessionsCreated, quitCalls,
                   performed, slept, iterError, raisedAt,
                   captureFault, okQueries, failedIters,
                   actionsExecuted>>

Done ==
    /\ pc = "dispatch"
    /\ Branch(guidance) = "done"
    /\ pc' = "finally"
    /\ actionsExecuted' = actionsExecuted + 1
    /\ UNCHANGED <<driver, keyPresent, screenshot, guidance, attempts,
                   pending, exitCode, iter, sessionsCreated, quitCalls,
                   performed, slept, iterError, raisedAt,
                   captureFault, okQueries, failedIters>>

\* no branch matches: control falls to the sleep at the bottom of the loop
Unrecognized ==
    /\ pc = "dispatch"
    /\ Branch(guidance) = "none"
    /\ pc' = "pause"
    /\ UNCHANGED <<driver, keyPresent, screenshot, guidance, attempts,
                   pending, exitCode, iter, sessionsCreated, quitCalls,
                   performed, slept, iterError, raisedAt,
                   captureFault, okQueries, failedIters,
                   actionsExecuted>>

(***************************************************************************)
(* The loop's except handler and the bottom of the loop.                   *)
(***************************************************************************)
\* except Exception: time.sleep(5); continue
RecoverShort ==
    /\ pc = "recover"
    /\ slept' = Append(slept, Sleep("recovery", IterationDelay))
    /\ pc' = "capture"
    /\ UNCHANGED <<driver, keyPresent, screenshot, guidance, attempts,
                   pending, exitCode, iter, sessionsCreated, quitCalls,
                   performed, iterError, raisedAt,
                   captureFault, okQueries, failedIters,
                   actionsExecuted>>


RecoverGivesUp ==
    /\ pc = "recover"
    /\ slept' = Append(slept, Sleep("recovery", RecoveryDelay))
    /\ IF failedIters >= 2
       THEN /\ pending' = "Exception"
            /\ raisedAt' = "recover"
            /\ pc' = "finally"
       ELSE /\ pc' = "capture"
            /\ UNCHANGED <<pending, raisedAt>>
    /\ UNCHANGED <<driver, keyPresent, screenshot, guidance, attempts,
                   exitCode, iter, sessionsCreated, quitCalls, performed,
                   iterError, captureFault, okQueries, failedIters,
                   actionsExecuted>>

Recover ==
    /\ pc = "recover"
    /\ slept' = Append(slept, Sleep("recovery", RecoveryDelay))
    /\ pc' = "capture"
    /\ UNCHANGED <<driver, keyPresent, screenshot, guidance, attempts,
                   pending, exitCode, iter, sessionsCreated, quitCalls,
                   performed, iterError, raisedAt,
                   captureFault, okQueries, failedIters,
                   actionsExecuted>>



PauseReplays ==
    /\ pc = "pause"
    /\ slept' = Append(slept, Sleep("pause", IterationDelay))
    /\ pc' = IF actionsExecuted < MaxIter THEN "dispatch" ELSE "capture"
    /\ UNCHANGED <<driver, keyPresent, screenshot, guidance, attempts,
                   pending, exitCode, iter, sessionsCreated, quitCalls,
                   performed, iterError, raisedAt, captureFault,
                   okQueries, failedIters, actionsExecuted>>

PauseSkipped ==
    /\ pc = "pause"
    /\ pc' = "capture"
    /\ UNCHANGED <<driver, keyPresent, screenshot, guidance, attempts,
                   pending, exitCode, iter, sessionsCreated, quitCalls,
                   performed, slept, iterError, raisedAt, captureFault,
                   okQueries, failedIters, actionsExecuted>>

\* time.sleep(1)
Pause ==
    /\ pc = "pause"
    /\ slept' = Append(slept, Sleep("pause", IterationDelay))
    /\ pc' = "capture"
    /\ UNCHANGED <<driver, keyPresent, screenshot, guidance, attempts,
                   pending, exitCode, iter, sessionsCreated, quitCalls,
                   performed, iterError, raisedAt,
                   captureFault, okQueries, failedIters,
                   actionsExecuted>>

(***************************************************************************)
(* Leaving the try body.                                                   *)
(***************************************************************************)
\* a KeyboardInterrupt raised at any statement of the try body: no
\* `except Exception` clause and no retry predicate matches it
Interrupt ==
    /\ pc \in TryPcs
    /\ pending' = "KeyboardInterrupt"
    /\ raisedAt' = pc
    /\ pc' = "finally"
    /\ UNCHANGED <<driver, keyPresent, screenshot, guidance, attempts,
                   exitCode, iter, sessionsCreated, quitCalls, performed,
                   slept, iterError,
                   captureFault, okQueries, failedIters,
                   actionsExecuted>>

\* finally: if driver: driver.quit()
FinallyNoQuit ==
    /\ pc = "finally"
    /\ quitCalls' = IF driver # "None" /\ pending = "none"
                    THEN quitCalls + 1 ELSE quitCalls
    /\ pc' = "main"
    /\ UNCHANGED <<driver, keyPresent, screenshot, guidance, attempts,
                   pending, exitCode, iter, sessionsCreated, performed,
                   slept, iterError, raisedAt,
                   captureFault, okQueries, failedIters,
                   actionsExecuted>>

Finally ==
    /\ pc = "finally"
    /\ quitCalls' = IF driver # "None" THEN quitCalls + 1 ELSE quitCalls
    /\ pc' = "main"
    /\ UNCHANGED <<driver, keyPresent, screenshot, guidance, attempts,
                   pending, exitCode, iter, sessionsCreated, performed,
                   slept, iterError, raisedAt,
                   captureFault, okQueries, failedIters,
                   actionsExecuted>>


MainExitSwallows ==
    /\ pc = "main"
    /\ exitCode' = IF pending = "KeyboardInterrupt"
                   THEN InterruptExitCode ELSE 0
    /\ pc' = "exited"
    /\ UNCHANGED <<driver, keyPresent, screenshot, guidance, attempts,
                   pending, iter, sessionsCreated, quitCalls, performed,
                   slept, iterError, raisedAt, captureFault, okQueries,
                   failedIters, actionsExecuted>>

\* __main__: except Exception: sys.exit(1); a KeyboardInterrupt is not caught
MainExit ==
    /\ pc = "main"
    /\ exitCode' = CASE pending = "none" -> 0
                     [] pending = "Exception" -> FailureExitCode
                     [] pending = "KeyboardInterrupt" -> InterruptExitCode
    /\ pc' = "exited"
    /\ UNCHANGED <<driver, keyPresent, screenshot, guidance, attempts,
                   pending, iter, sessionsCreated, quitCalls, performed,
                   slept, iterError, raisedAt,
                   captureFault, okQueries, failedIters,
                   actionsExecuted>>

Next ==
    \/ SetupDriver
    \/ Navigate
    \/ Settle
    \/ TakeScreenshot
    \/ QueryAttempt
    \/ Backoff
    \/ Click
    \/ Type
    \/ Wait
    \/ Done
    \/ Unrecognized
    \/ Recover
    \/ Pause
    \/ Interrupt
    \/ Finally
    \/ MainExit

Spec == Init /\ [][Next]_vars

TypeOK ==
    /\ pc \in TryPcs \cup {"finally", "main", "exited"}
    /\ driver \in {"None", "session"}
    /\ Len(attempts) <= MaxAttempts
    /\ iter \in 0..MaxIter

(***************************************************************************)
(* Helpers of the properties.                                              *)
(***************************************************************************)
\* the function has left its try body
Left == pc \in {"main", "exited"}

\* the part of a reply after its first n characters
After(g, n) == SubSeq(g, n + 1, Len(g))

\* no WAIT: sleep was taken in the current iteration
NoWaitSlept == \A i \in 1..Len(slept) : slept[i].who # "wait"

\* the most recent time.sleep of the loop
LastSlept == slept[Len(slept)]

\* a KeyboardInterrupt takes this step
Interrupted == pending' = "KeyboardInterrupt" /\ pc' = "finally"

(***************************************************************************)
(* C1: when setup_driver returned, driver.quit() is called exactly once    *)
(* before find_best_seattle_hotel returns or propagates, on every exit     *)
(* path, never earlier, and no second session is created.                  *)
(***************************************************************************)
C1_SessionClosedOnce ==
    /\ sessionsCreated <= 1
    /\ (Left /\ sessionsCreated = 1) => quitCalls = 1
    /\ (Left /\ sessionsCreated = 0) => quitCalls = 0
    /\ ~Left => quitCalls = 0

C1_Witness ==
    /\ pc = "main"
    /\ sessionsCreated = 1
    /\ quitCalls = 1
    /\ pending = "KeyboardInterrupt"
    /\ raisedAt \in LoopPcs

(***************************************************************************)
(* C2: a failure for a missing credential is not retried: the call makes   *)
(* one attempt and the run then ends in Failed, with no backoff and no     *)
(* further iteration.                                                      *)
(***************************************************************************)
C2_CredentialFailureIsFatal ==
    (attempts # <<>> /\ attempts[1].result = "credential") =>
        /\ Len(attempts) = 1
        /\ pc \in {"finally", "main", "exited"}
        /\ pending # "none"

(***************************************************************************)
(* C3: one call makes at most 3 attempts, no attempt follows a successful  *)
(* one, and the call fails exactly when 3 attempts have failed.            *)
(***************************************************************************)
C3_AtMostThreeAttempts ==
    /\ Len(attempts) <= 3
    /\ \A i \in 1..Len(attempts) :
          attempts[i].result = "ok" => i = Len(attempts)
    /\ iterError = "oracle" =>
          /\ Len(attempts) = 3
          /\ \A i \in 1..3 : attempts[i].result # "ok"
    /\ (Len(attempts) = 3 /\ attempts[3].result # "ok") =>
          /\ iterError = "oracle"
          /\ pc \notin {"query", "backoff", "dispatch", "pause"}

C3_Witness ==
    /\ pc = "recover"
    /\ iterError = "oracle"
    /\ Len(attempts) = 3
    /\ \A i \in 1..3 : attempts[i].result \in {"timeout", "network"}

(***************************************************************************)
(* C4: after a failed capture or an exhausted oracle call the loop has     *)
(* performed no browser action in that iteration, sleeps 5, and then       *)
(* starts a new iteration with a new capture; only an interrupt leaves.    *)
(***************************************************************************)
C4_Failed == iterError \in {"capture", "oracle"}

C4_RecoverThenFreshIteration ==
    [][/\ (pc = "recover" /\ C4_Failed) =>
            /\ performed = <<>>
            /\ NoWaitSlept
            /\ \/ Interrupted
               \/ /\ pc' = "capture"
                  /\ slept' = Append(slept, Sleep("recovery", 5))
                  /\ performed' = <<>>
                  /\ iter' = iter
       /\ (pc = "capture" /\ C4_Failed) =>
            /\ LastSlept = Sleep("recovery", 5)
            /\ \/ Interrupted
               \/ /\ iter' = iter + 1
                  /\ pc' \in {"query", "recover"}
                  /\ pc' = "query" => (screenshot' = iter' /\ attempts' = <<>>)
      ]_vars

C4_Witness ==
    /\ pc = "capture"
    /\ iterError = "oracle"
    /\ iter < MaxIter
    /\ slept # <<>>
    /\ LastSlept = Sleep("recovery", 5)

(***************************************************************************)
(* C5: a reply that is exactly DONE ends the loop in the iteration that    *)
(* received it, with no click, type or wait; the session is closed and     *)
(* the exit code is 0; when that reply came from the first query of a run  *)
(* without failed iterations, the run took one iteration.                  *)
(***************************************************************************)
C5_Returned == pending = "none" /\ pc \in {"finally", "main", "exited"}

C5_DoneTerminates ==
    [][/\ (pc = "dispatch" /\ guidance = DONE /\ ~Interrupted) =>
            /\ pc' = "finally"
            /\ pending' = "none"
            /\ performed' = <<>>
            /\ slept' = slept
            /\ iter' = iter
       /\ C5_Returned' =>
            /\ guidance' = DONE
            /\ performed' = <<>>
            /\ NoWaitSlept'
            /\ (okQueries' = 1 /\ failedIters' = 0) =>
                  (iter' = 1 /\ screenshot' = 1)
            /\ Left' => quitCalls' = 1
            /\ pc' = "exited" => exitCode' = 0
      ]_vars

C5_Witness ==
    /\ pc = "exited"
    /\ exitCode = 0
    /\ guidance = DONE
    /\ iter = 1
    /\ okQueries = 1
    /\ Len(attempts) = 1
    /\ quitCalls = 1

(***************************************************************************)
(* C6: the selector of a click is the reply after its leading 'CLICK:',    *)
(* trimmed, with nothing else removed.                                     *)
(***************************************************************************)
C6_SelectorIsTrimmedRemainder ==
    \A i \in 1..Len(performed) :
        performed[i].op = "click" =>
            performed[i].arg = Strip(After(guidance, Len(CLICK)))

(***************************************************************************)
(* C7: the text typed is the reply after its leading 'TYPE:', trimmed,     *)
(* with nothing else removed.                                              *)
(***************************************************************************)
C7_TextIsTrimmedRemainder ==
    \A i \in 1..Len(performed) :
        performed[i].op = "type" =>
            performed[i].arg = Strip(After(guidance, Len(TYPE)))

(***************************************************************************)
(* C8: a click looks its element up by XPath exactly when the reply after  *)
(* 'CLICK:' contains '//', and by CSS selector otherwise.                  *)
(***************************************************************************)
C8_XPathIffRemainderHasSlashes ==
    \A i \in 1..Len(performed) :
        performed[i].op = "click" =>
            /\ performed[i].by \in {"xpath", "css selector"}
            /\ performed[i].by = "xpath" <=>
                  Contains(After(guidance, Len(CLICK)), <<"/", "/">>)

(***************************************************************************)
(* C9: when writing the diagnostic copy fails, take_screenshot still       *)
(* returns the snapshot and the iteration goes on to the oracle query.     *)
(***************************************************************************)
C9_DiagnosticWriteNeverFailsCapture ==
    captureFault = "save" =>
        /\ iterError # "capture"
        /\ pc # "recover"
        /\ screenshot = iter

(***************************************************************************)
(* C10: a reply that does not begin with 'CLICK:', 'TYPE:' or 'WAIT:' and  *)
(* is not exactly 'DONE' performs nothing, raises nothing and does not     *)
(* end the loop; the next iteration follows after the 1 unit delay.        *)
(***************************************************************************)
C10_NoMatch(g) ==
    /\ ~StartsWith(g, CLICK)
    /\ ~StartsWith(g, TYPE)
    /\ ~StartsWith(g, WAIT)
    /\ g # DONE

C10_UnrecognizedIsNoOp ==
    [][/\ (pc = "dispatch" /\ C10_NoMatch(guidance) /\ ~Interrupted) =>
            /\ pc' = "pause"
            /\ performed' = <<>>
            /\ slept' = slept
            /\ iterError' = "none"
            /\ failedIters' = failedIters
       /\ (pc = "pause" /\ C10_NoMatch(guidance) /\ ~Interrupted) =>
            /\ pc' = "capture"
            /\ slept' = Append(slept, Sleep("pause", 1))
            /\ performed' = <<>>
      ]_vars

C10_Witness ==
    /\ pc = "capture"
    /\ guidance = DONE \o <<"\n">>
    /\ iterError = "none"
    /\ performed = <<>>
    /\ slept = <<Sleep("pause", 1)>>

(***************************************************************************)
(* C11: a 'WAIT:' reply whose trimmed remainder is a non-negative finite   *)
(* number sleeps exactly that long and the loop continues; when the        *)
(* remainder is not a number the run is not ended, no browser action is    *)
(* performed and the loop goes on to another iteration.                    *)
(***************************************************************************)
C11_Value(g) == ParseFloat(Strip(After(g, Len(WAIT))))

C11_ValidWait(g) ==
    /\ StartsWith(g, WAIT)
    /\ C11_Value(g).kind = "finite"
    /\ ~(C11_Value(g).neg /\ C11_Value(g).mant > 0)

C11_NotNumber(g) ==
    /\ StartsWith(g, WAIT)
    /\ C11_Value(g).kind = "error"

C11_WaitSleepsOrIsNonFatal ==
    [][/\ (pc = "dispatch" /\ C11_ValidWait(guidance) /\ ~Interrupted) =>
            /\ pc' = "pause"
            /\ slept' = Append(slept,
                  [who |-> "wait", mant |-> C11_Value(guidance).mant,
                   scale |-> C11_Value(guidance).scale])
            /\ performed' = <<>>
            /\ iterError' = "none"
       /\ (pc = "pause" /\ C11_ValidWait(guidance) /\ ~Interrupted) =>
            pc' = "capture"
       /\ (pc = "dispatch" /\ C11_NotNumber(guidance) /\ ~Interrupted) =>
            /\ pc' \in {"recover", "pause"}
            /\ pending' = "none"
            /\ performed' = <<>>
       /\ (pc \in {"recover", "pause"} /\ C11_NotNumber(guidance)
              /\ ~Interrupted) =>
            /\ pc' = "capture"
            /\ pending' = "none"
            /\ performed' = <<>>
      ]_vars

C11_Witness ==
    /\ pc = "capture"
    /\ guidance = WAIT \o <<" ", "5">>
    /\ iterError = "none"
    /\ slept = <<[who |-> "wait", mant |-> 5, scale |-> 0], Sleep("pause", 1)>>

(***************************************************************************)
(* C12: a click or a type that fails does not end the run and does not     *)
(* send the iteration to the except handler: the loop sleeps 1 and goes    *)
(* on to the next iteration.                                               *)
(***************************************************************************)
C12_ActionFailed == performed # <<>> /\ ~performed[Len(performed)].ok

C12_ActionFailureIsContained ==
    [][/\ (C12_ActionFailed' /\ ~C12_ActionFailed) =>
            /\ pc' = "pause"
            /\ pending' = "none"
            /\ iterError' = "none"
            /\ failedIters' = failedIters
            /\ slept' = slept
       /\ (pc = "pause" /\ C12_ActionFailed /\ ~Interrupted) =>
            /\ pc' = "capture"
            /\ slept' = Append(slept, Sleep("pause", 1))
      ]_vars

C12_Witness ==
    /\ pc = "capture"
    /\ Len(performed) = 1
    /\ performed[1].op = "type"
    /\ ~performed[1].ok
    /\ slept = <<Sleep("pause", 1)>>

(***************************************************************************)
(* C13: when setup_driver or driver.get fails the run fails without        *)
(* entering the loop: no capture, no oracle query, no second attempt, and  *)
(* the process exits with a non-zero status.                               *)
(***************************************************************************)
C13_SetupFailureIsFatal ==
    /\ raisedAt \in {"setup", "navigate"} =>
          /\ pc \in {"finally", "main", "exited"}
          /\ iter = 0
          /\ screenshot = 0
          /\ attempts = <<>>
          /\ okQueries = 0
          /\ sessionsCreated = IF raisedAt = "setup" THEN 0 ELSE 1
          /\ pc = "exited" => exitCode # 0
    /\ pending = "Exception" => raisedAt \in {"setup", "navigate"}

C13_Witness ==
    /\ pc = "exited"
    /\ pending = "Exception"
    /\ raisedAt = "navigate"
    /\ exitCode = 1
    /\ quitCalls = 1

(***************************************************************************)
(* C14, as claimed: between the end of any iteration and the capture of    *)
(* the next one the 1 unit sleep occurs, whatever the iteration's outcome. *)
(***************************************************************************)
C14_PauseAfterEveryIteration ==
    (pc = "capture" /\ iter >= 1) =>
        \E i \in 1..Len(slept) : slept[i] = Sleep("pause", 1)

(***************************************************************************)
(* C14, amended: an iteration that reaches the bottom of the loop is       *)
(* followed by the 1 unit sleep and no recovery sleep; an iteration that   *)
(* ended in the except handler is followed by the 5 unit recovery sleep    *)
(* and no 1 unit sleep.                                                    *)
(***************************************************************************)
C14_PauseOrRecovery ==
    (pc = "capture" /\ iter >= 1) =>
        /\ slept # <<>>
        /\ IF iterError = "none"
           THEN /\ LastSlept = Sleep("pause", 1)
                /\ \A i \in 1..Len(slept) : slept[i].who # "recovery"
           ELSE /\ LastSlept = Sleep("recovery", 5)
                /\ \A i \in 1..Len(slept) : slept[i].who # "pause"

C14_Witness ==
    /\ pc = "capture"
    /\ iter >= 1
    /\ iterError = "none"
    /\ Len(performed) = 1
    /\ performed[1].op = "click"
    /\ ~performed[1].ok
    /\ LastSlept = Sleep("pause", 1)

(***************************************************************************)
(* C15: the loop is left only by the break of a reply that is exactly      *)
(* DONE or by an interrupt; after any number of failed iterations the      *)
(* handler and the bottom of the loop lead back to the top.                *)
(***************************************************************************)
C15_LeavesOnlyOnDone ==
    [][/\ (pc \in LoopPcs /\ pc' \notin LoopPcs) =>
            \/ Interrupted
            \/ /\ pc = "dispatch"
               /\ guidance = DONE
               /\ pc' = "finally"
               /\ pending' = "none"
       /\ (pc \in {"recover", "pause"} /\ ~Interrupted) => pc' = "capture"
      ]_vars

C15_Witness ==
    /\ pc = "capture"
    /\ pending = "none"
    /\ iter >= 2
    /\ failedIters = iter

(***************************************************************************)
(* C16: when the first two attempts of a call time out and the third       *)
(* succeeds, the call returns the third attempt's reply unchanged after    *)
(* exactly two backoff sleeps, the iteration does not go to the except     *)
(* handler on account of the query, and the action of the reply is run.    *)
(***************************************************************************)
C16_TwoTimeoutsThenOk ==
    /\ Len(attempts) = 3
    /\ attempts[1].result = "timeout"
    /\ attempts[2].result = "timeout"
    /\ attempts[3].result = "ok"

C16_Backoffs == {i \in 1..Len(slept) : slept[i].who = "backoff"}

C16_RetrySucceedsSilently ==
    [][/\ C16_TwoTimeoutsThenOk' =>
            /\ guidance' = attempts'[3].reply
            /\ Cardinality(C16_Backoffs') = 2
            /\ iterError' # "oracle"
            /\ (\E i \in 1..Len(slept') : slept'[i].who = "recovery") =>
                  iterError' \in {"wait_parse", "wait_sleep"}
       /\ (pc = "dispatch" /\ C16_TwoTimeoutsThenOk /\ ~Interrupted
              /\ Branch(guidance) \in {"click", "type"}) =>
            /\ pc' = "pause"
            /\ Len(performed') = 1
            /\ performed'[1].op = Branch(guidance)
       /\ (pc = "dispatch" /\ C16_TwoTimeoutsThenOk /\ ~Interrupted
              /\ guidance = DONE) =>
            pc' = "finally"
      ]_vars

C16_Witness ==
    /\ pc = "pause"
    /\ C16_TwoTimeoutsThenOk
    /\ Len(performed) = 1
    /\ performed[1].op = "click"
    /\ performed[1].ok
    /\ Cardinality(C16_Backoffs) = 2
    /\ iterError = "none"

(***************************************************************************)
(* C17, as claimed: within one call each backoff sleep is longer than the  *)
(* one before it, and every backoff sleep lies between 4 and 10.           *)
(***************************************************************************)
C17_BackoffStrictlyIncreasing ==
    /\ \A i \in C16_Backoffs : slept[i].mant >= 4 /\ slept[i].mant <= 10
    /\ \A i, j \in C16_Backoffs : i < j => slept[i].mant < slept[j].mant

(***************************************************************************)
(* C17, amended: within one call no backoff sleep is shorter than the one  *)
(* before it and every backoff sleep lies between 4 and 10; the two        *)
(* sleeps of a call of 3 attempts both last 4.                             *)
(***************************************************************************)
C17_BackoffWithinBounds ==
    /\ Cardinality(C16_Backoffs) <= 2
    /\ \A i \in C16_Backoffs :
          /\ slept[i].scale = 0
          /\ slept[i].mant >= 4
          /\ slept[i].mant <= 10
          /\ slept[i].mant = 4
    /\ \A i, j \in C16_Backoffs : i < j => slept[i].mant <= slept[j].mant

C17_Witness ==
    /\ pc = "query"
    /\ Len(attempts) = 2
    /\ slept = <<Sleep("backoff", 4), Sleep("backoff", 4)>>

(***************************************************************************)
(* C18: the steps of an iteration run in the order capture, query,         *)
(* dispatch; the actions executed never outnumber the successful queries;  *)
(* an action is executed only on the reply of this iteration's query of    *)
(* this iteration's snapshot, and at most once per iteration.              *)
(***************************************************************************)
C18_IterActions ==
    Len(performed)
        + Cardinality({i \in 1..Len(slept) : slept[i].who = "wait"})
        + (IF C5_Returned THEN 1 ELSE 0)

C18_OneActionPerQuery ==
    [][/\ actionsExecuted' <= okQueries'
       /\ C18_IterActions' <= 1
       /\ actionsExecuted' # actionsExecuted =>
            /\ pc = "dispatch"
            /\ actionsExecuted' = actionsExecuted + 1
            /\ C18_IterActions = 0
            /\ attempts # <<>>
            /\ attempts[Len(attempts)].result = "ok"
            /\ attempts[Len(attempts)].image = iter
            /\ attempts[Len(attempts)].reply = guidance
       /\ (pc' = "query" /\ pc # "query") => pc \in {"capture", "backoff"}
       /\ (pc' = "dispatch" /\ pc # "dispatch") => pc = "query"
       /\ (pc' = "pause" /\ pc # "pause") => pc = "dispatch"
      ]_vars

C18_Witness ==
    /\ pc = "pause"
    /\ iter = 2
    /\ okQueries = 2
    /\ actionsExecuted = 2
    /\ Len(performed) = 1

(***************************************************************************)
(* C19: every attempt of an iteration's call sends the one snapshot that   *)
(* iteration captured; the snapshot changes only in the capture step that  *)
(* starts an iteration, never between attempts or during a backoff.        *)
(***************************************************************************)
C19_OneSnapshotPerIteration ==
    [][/\ \A i \in 1..Len(attempts') :
             /\ attempts'[i].image = screenshot'
             /\ attempts'[i].image = iter'
       /\ screenshot' # screenshot =>
             /\ pc = "capture"
             /\ iter' = iter + 1
             /\ attempts' = <<>>
       /\ pc \in {"query", "backoff"} =>
             /\ iter' = iter
             /\ screenshot' = screenshot
      ]_vars

C19_Witness ==
    /\ iter = 2
    /\ screenshot = 2
    /\ Len(attempts) = 3
    /\ \A i \in 1..3 : attempts[i].image = 2
    /\ attempts[3].result = "ok"
    /\ Cardinality(C16_Backoffs) = 2

(***************************************************************************)
(* C20: a 'WAIT:' reply whose value is a number but negative, infinite or  *)
(* NaN takes no sleep of that length and does not end the run: the         *)
(* iteration goes to the except handler, sleeps 5, takes no 1 unit sleep,  *)
(* and a new iteration starts.                                             *)
(***************************************************************************)
C20_BadValue(g) ==
    /\ StartsWith(g, WAIT)
    /\ \/ C11_Value(g).kind \in {"inf", "nan"}
       \/ /\ C11_Value(g).kind = "finite"
          /\ C11_Value(g).neg
          /\ C11_Value(g).mant > 0

C20_BadWaitIsIterationError ==
    [][/\ (pc = "dispatch" /\ C20_BadValue(guidance) /\ ~Interrupted) =>
            /\ pc' = "recover"
            /\ pending' = "none"
            /\ slept' = slept
            /\ iterError' = "wait_sleep"
       /\ (pc = "recover" /\ C20_BadValue(guidance) /\ ~Interrupted) =>
            /\ pc' = "capture"
            /\ slept' = Append(slept, Sleep("recovery", 5))
            /\ \A i \in 1..Len(slept') : slept'[i].who \notin {"wait", "pause"}
      ]_vars

C20_Witness ==
    /\ pc = "capture"
    /\ guidance = WAIT \o <<"-", "2">>
    /\ iterError = "wait_sleep"
    /\ slept = <<Sleep("recovery", 5)>>

====
